---- MODULE Spec2Model ----
(***************************************************************************)
(* Result aggregation of predictit: analyze_results (analyze.py), the fold *)
(* and ranking steps of predict and the reduction of compare_models        *)
(* (main.py), the main loop of predict, which dispatches one task per      *)
(* model and optimization value and collects the results, the head of a    *)
(* pass of that loop, and the freezing and restoring of the global config  *)
(* by predict, predict_multiple_columns and compare_models.                *)
(*                                                                         *)
(* Arrays are functions over 0..n-1, so indexes are the source's 0-based   *)
(* indexes.  A float is an exact fraction <<n, d>> with d >= 1 in lowest   *)
(* terms; NaN is <<0, 0>>.                                                 *)
(***************************************************************************)
EXTENDS Integers, Sequences, FiniteSets, TLC

VARIABLES
    call,                        \* the entry point that was called
    pc,                          \* position inside the called function
    arr,                         \* analyze_results: argument results[d][o][m]
    analysis,                    \* analyze_results: its outcome
    config,                      \* predict: the config values the ranking reads
    used_models_assigned,        \* predict: model names, row j of the matrices
    results,                     \* predict: the collected task results
    evaluated_matrix,            \* predict: [r][m][o] errors
    reality_results_matrix,      \* predict: [m][o] predictions
    repeated_average,            \* predict: [m][o] mean over repetitions
    model_results,               \* predict: [m] best error of the model
    sorted_results,              \* predict: model indexes, best first
    predicted_models_for_table,  \* predict: model name -> reported entry
    best_model_name,             \* predict: local of that name
    best_model_predicts,         \* predict: local of that name
    predict_outcome,             \* predict: "running", "returned" or the exception
    predict_returns,             \* compare_models: what predict() gives per dataset
    compared_result,             \* compare_models: its outcome
    optimization_index,          \* predict: position of the loop of line 264
    input_type_index,            \* predict: position of the loop of line 331
    iterated_model_index,        \* predict: position of the loop of line 341
    used_input_types,            \* predict: the set of line 208, in iteration order
    workers,                     \* predict: the train_and_predict calls made so far
    pipe_index,                  \* predict: position of the loop of line 375
    inputs_failed,               \* predict: the (optimization index, input type) pairs
                                 \*          whose create_inputs call raised
    models_test_outputs,         \* predict: the held-out windows of the pass
    passes,                      \* predict: config_multiprocessed of each pass so far
    function_kwargs,             \* the keyword arguments of the call
    config_freezed,              \* the copy of the config taken at the start of the call
    config_before,               \* the config as it was immediately before the call
    loop_index,                  \* position of the loop over the pairs or the datasets
    predictions,                 \* predict_multiple_columns: the dictionary returned
    calls                        \* the predict() calls the loop has made so far

vars == <<call, pc, arr, analysis, config, used_models_assigned, results,
          evaluated_matrix, reality_results_matrix, repeated_average,
          model_results, sorted_results, predicted_models_for_table,
          best_model_name, best_model_predicts, predict_outcome,
          predict_returns, compared_result, optimization_index, input_type_index,
          iterated_model_index, used_input_types, workers, pipe_index, inputs_failed,
          models_test_outputs, passes, function_kwargs, config_freezed, config_before,
          loop_index, predictions, calls>>

\* the variables of the main loop of predict
sched == <<optimization_index, input_type_index, iterated_model_index,
           used_input_types, workers, pipe_index, inputs_failed>>

\* the variables of the head of a pass of the main loop
sweep == <<models_test_outputs, passes>>

\* the variables of the calls that freeze and restore the config
frame == <<function_kwargs, config_freezed, config_before, loop_index, predictions, calls>>

-----------------------------------------------------------------------------
(* Bounds of the explored inputs *)

MaxModels == 2      \* models per run
MaxOpt == 2         \* optimization values per run
MaxRepeat == 2      \* repetitions (repeatit), datasets
MaxErr == 1         \* error values are 0..MaxErr
MaxCells == 4       \* cells of one input array
MaxData == 8        \* rows of the data, and repetitions asked for on them
MaxPredicts == 2    \* predicted values (config.predicts)
MaxColumns == 2     \* predicted columns of predict_multiple_columns
MaxFreqs == 2       \* frequencies of predict_multiple_columns

-----------------------------------------------------------------------------
(* Numbers *)

Range0(n) == 0 .. (n - 1)

Size(a) == Cardinality(DOMAIN a)

NaN == <<0, 0>>

IsNaN(x) == x[2] = 0

RECURSIVE GCD(_, _)
GCD(a, b) == IF b = 0 THEN a ELSE GCD(b, a % b)

Frac(n, d) == LET g == GCD(n, d) IN <<n \div g, d \div g>>

Num(k) == <<k, 1>>

Less(a, b) == a[1] * b[2] < b[1] * a[2]

AddF(a, b) == Frac(a[1] * b[2] + b[1] * a[2], a[2] * b[2])

SubF(a, b) == Frac(a[1] * b[2] - b[1] * a[2], a[2] * b[2])

\* a / b for a >= 0, b >= 0; 0 / 0 is nan as in IEEE arithmetic
DivF(a, b) == IF b[1] = 0 THEN NaN ELSE Frac(a[1] * b[2], a[2] * b[1])

\* the indexes of the entries of v that are not nan
Valid(v) == {i \in DOMAIN v : ~IsNaN(v[i])}

MinOf(v, S) == v[CHOOSE i \in S : \A j \in S : ~Less(v[j], v[i])]

FirstMin(v, S) == CHOOSE i \in S : \A j \in S : Less(v[i], v[j]) \/ (~Less(v[j], v[i]) /\ i <= j)

RECURSIVE SumOver(_, _)
SumOver(v, S) ==
    IF S = {} THEN Num(0)
    ELSE LET i == CHOOSE k \in S : TRUE IN AddF(v[i], SumOver(v, S \ {i}))

\* np.min written where np.mean belongs
MeanAsMinimum(v) ==
    IF Valid(v) # DOMAIN v \/ DOMAIN v = {} THEN NaN
    ELSE MinOf(v, DOMAIN v)

\* np.mean of a vector: nan as soon as one entry is nan
Mean(v) ==
    IF Valid(v) # DOMAIN v \/ DOMAIN v = {} THEN NaN
    ELSE DivF(SumOver(v, DOMAIN v), Num(Size(v)))

\* np.nanmean of a vector: nan entries are left out, nan when nothing is left
NanMean(v) ==
    IF Valid(v) = {} THEN NaN
    ELSE DivF(SumOver(v, Valid(v)), Num(Cardinality(Valid(v))))

\* np.nanmin of a non-empty vector: nan (and a warning) when all entries are nan
NanMin(v) == IF Valid(v) = {} THEN NaN ELSE MinOf(v, Valid(v))

\* np.nanmax of a non-empty vector
NanMax(v) ==
    IF Valid(v) = {} THEN NaN
    ELSE v[CHOOSE i \in Valid(v) : \A j \in Valid(v) : ~Less(v[i], v[j])]

\* np.nanargmin raises ValueError on an empty or an all-nan vector
NanArgMinRaises(v) == Valid(v) = {}

NanArgMin(v) == FirstMin(v, Valid(v))

\* np.argmin of a non-empty vector: nan propagates, the first nan wins
ArgMin(v) ==
    IF Valid(v) # DOMAIN v
    THEN CHOOSE i \in DOMAIN v : IsNaN(v[i]) /\ \A j \in DOMAIN v : IsNaN(v[j]) => i <= j
    ELSE FirstMin(v, DOMAIN v)

-----------------------------------------------------------------------------
(* Names and values *)

\* the name of the model in row j
ModelName(j) == <<"Model", j + 1>>

\* the o-th value of the swept config variable
ConfigValue(o) == 10 * (o + 1)

\* the text 'Not optimized'
NotOptimized == -1

\* a local that was never assigned
Unbound == <<"unbound", 0>>

ShapeOf(a) ==
    LET D == Size(a)
        O == IF D = 0 THEN 0 ELSE Size(a[0])
        M == IF O = 0 THEN 0 ELSE Size(a[0][0])
    IN  <<D, O, M>>

-----------------------------------------------------------------------------
(* analyze.py: analyze_results, for a three-dimensional results array      *)
(* indexed [dataset][optimized][model] as its docstring documents           *)

AnalysisRaised(kind, bre) ==
    [status |-> kind, best_results_errors |-> bre,
     best_models_optimized_values_dict |-> <<>>,
     optimized_values_results_df |-> <<>>,
     best_model_name |-> Unbound, best_optimized_value |-> NotOptimized]

\* a two-dimensional array read in row-major order, as numpy flattens it
Flatten(a, rows, cols) == [k \in Range0(rows * cols) |-> a[k \div cols][k % cols]]

analyze_results(res, config_values_columns, models_columns) ==
    LET D == ShapeOf(res)[1]
        O == ShapeOf(res)[2]
        M == ShapeOf(res)[3]
        Along0(o, m) == [d \in Range0(D) |-> res[d][o][m]]
        \* line 306: the minimum along axis 0 keeps the axes (optimized, model)
        best_results_errors ==
            [o \in Range0(O) |-> [m \in Range0(M) |-> NanMin(Along0(o, m))]]
        \* line 307
        best_optimized_indexes_errors ==
            [o \in Range0(O) |-> [m \in Range0(M) |-> NanArgMin(Along0(o, m))]]
        \* lines 309-312: zip pairs the model names with the rows of the index array
        zipped == IF Size(models_columns) < O THEN Size(models_columns) ELSE O
        flat == Flatten(best_results_errors, O, M)
        best_model_index == NanArgMin(flat)
        \* line 324: the mean along axis 1 keeps the axes (dataset, model)
        all_models_errors_average ==
            [d \in Range0(D) |->
                [m \in Range0(M) |-> NanMean([o \in Range0(O) |-> res[d][o][m]])]]
        flat_average == Flatten(all_models_errors_average, D, M)
        best_optimized_index == NanArgMin(flat_average)
    IN  IF D = 0
        THEN AnalysisRaised("ValueError", <<>>)             \* reduction of a zero-size axis
        ELSE IF \E o \in Range0(O), m \in Range0(M) : NanArgMinRaises(Along0(o, m))
        THEN AnalysisRaised("ValueError", best_results_errors)   \* All-NaN slice
        ELSE IF zipped > 0
        \* a list is indexed with a row of best_optimized_indexes_errors, an array
        THEN AnalysisRaised("TypeError", best_results_errors)
        ELSE IF NanArgMinRaises(flat)
        THEN AnalysisRaised("ValueError", best_results_errors)   \* argmin of an empty sequence
        ELSE IF best_model_index >= Size(models_columns)
        THEN AnalysisRaised("IndexError", best_results_errors)
        ELSE IF D = 1
        THEN [status |-> "returned", best_results_errors |-> best_results_errors,
              best_models_optimized_values_dict |-> <<>>,
              optimized_values_results_df |-> <<>>,
              best_model_name |-> models_columns[best_model_index],
              best_optimized_value |-> NotOptimized]
        ELSE IF NanArgMinRaises(flat_average)
        THEN AnalysisRaised("ValueError", best_results_errors)
        ELSE IF best_optimized_index >= Size(config_values_columns)
        THEN AnalysisRaised("IndexError", best_results_errors)
        ELSE IF D # Size(config_values_columns) \/ M # 1
        THEN AnalysisRaised("ValueError", best_results_errors)   \* DataFrame shape
        ELSE [status |-> "returned", best_results_errors |-> best_results_errors,
              best_models_optimized_values_dict |-> <<>>,
              optimized_values_results_df |->
                  [o \in Range0(D) |-> all_models_errors_average[o][0]],
              best_model_name |-> models_columns[best_model_index],
              best_optimized_value |-> config_values_columns[best_optimized_index]]

-----------------------------------------------------------------------------
(* main.py: predict, from the collected task results to the return         *)

\* the predictions a task made for model m and optimization index o stand for
\* the whole vector of config.predicts values
Predictions(m, o) == <<m, o>>

\* a row of reality_results_matrix that holds nan only
MissingPredictions == <<-1, -1>>

\* the text "Best model had an error"
BestModelHadAnError == <<-2, -2>>

\* What main_loop.train_and_predict hands back for the task (m, o): a result
\* with the keys 'results' and 'evaluated_matrix' (one error per repetition),
\* or, when the model failed, a result without them.
FailedResult(m, o) ==
    [index |-> <<m, o>>, ok |-> FALSE, results |-> MissingPredictions,
     evaluated_matrix |-> <<>>]

TaskResults(m, o, repeatit, errors) ==
    {FailedResult(m, o)} \cup
    {[index |-> <<m, o>>, ok |-> TRUE, results |-> Predictions(m, o),
      evaluated_matrix |-> ev] : ev \in [Range0(repeatit) -> errors]}

\* the matrix as np.zeros leaves it
EmptyEvaluatedZeros(R, M, O) ==
    [r \in Range0(R) |-> [m \in Range0(M) |-> [o \in Range0(O) |-> Num(0)]]]

\* lines 249-254: the matrices are allocated and filled with nan
EmptyEvaluated(R, M, O) == [r \in Range0(R) |-> [m \in Range0(M) |-> [o \in Range0(O) |-> NaN]]]

EmptyReality(M, O) == [m \in Range0(M) |-> [o \in Range0(O) |-> MissingPredictions]]

\* a pass that adds the errors to what the cell holds
FoldOneAccumulating(mats, i) ==
    LET ev == mats.evaluated_matrix
        re == mats.reality_results_matrix
        R == Size(ev)
        m == i.index[1]
        o == i.index[2]
        inside == m \in DOMAIN re /\ o \in DOMAIN re[m]
        re2 == [re EXCEPT ![m][o] = i.results]
        n == Size(i.evaluated_matrix)
        ev2 == [r \in Range0(R) |->
                   [ev[r] EXCEPT ![m][o] =
                        LET new == IF n = 1 THEN i.evaluated_matrix[0] ELSE i.evaluated_matrix[r]
                        IN  IF IsNaN(@) THEN new ELSE AddF(@, new)]]
    IN  IF ~i.ok THEN mats
        ELSE IF ~inside THEN mats
        ELSE IF n # R /\ n # 1
        THEN [evaluated_matrix |-> ev, reality_results_matrix |-> re2]
        ELSE [evaluated_matrix |-> ev2, reality_results_matrix |-> re2]

\* lines 386-391, one pass of the loop: the prediction row is written first,
\* then the error column; an exception ends the pass and is swallowed
FoldOne(mats, i) ==
    LET ev == mats.evaluated_matrix
        re == mats.reality_results_matrix
        R == Size(ev)
        m == i.index[1]
        o == i.index[2]
        inside == m \in DOMAIN re /\ o \in DOMAIN re[m]
        re2 == [re EXCEPT ![m][o] = i.results]
        n == Size(i.evaluated_matrix)
        ev2 == [r \in Range0(R) |->
                   [ev[r] EXCEPT ![m][o] =
                        IF n = 1 THEN i.evaluated_matrix[0] ELSE i.evaluated_matrix[r]]]
    IN  IF ~i.ok THEN mats
        ELSE IF ~inside THEN mats                                    \* IndexError
        ELSE IF n # R /\ n # 1
        THEN [evaluated_matrix |-> ev, reality_results_matrix |-> re2]   \* ValueError
        ELSE [evaluated_matrix |-> ev2, reality_results_matrix |-> re2]

\* the write of result i raises after it has begun
WriteRaises(mats, i) ==
    /\ i.ok
    /\ Size(i.evaluated_matrix) # Size(mats.evaluated_matrix)
    /\ Size(i.evaluated_matrix) # 1

\* a loop that the first exception ends (the try around the loop)
RECURSIVE FoldUntilError(_, _, _)
FoldUntilError(mats, res, n) ==
    IF n = 0 THEN mats
    ELSE IF \E k \in Range0(n - 1) : WriteRaises(mats, res[k])
    THEN FoldUntilError(mats, res, n - 1)
    ELSE FoldOne(FoldUntilError(mats, res, n - 1), res[n - 1])

RECURSIVE FoldUpTo(_, _, _)
FoldUpTo(mats, res, n) ==
    IF n = 0 THEN mats ELSE FoldOne(FoldUpTo(mats, res, n - 1), res[n - 1])

\* line 405
RepeatedAverage(ev, M, O) ==
    [m \in Range0(M) |-> [o \in Range0(O) |-> Mean([r \in DOMAIN ev |-> ev[r][m][o]])]]

\* lines 409-410
ModelResult(row) == IF Valid(row) = {} THEN NaN ELSE NanMin(row)

\* a sorts before b: nan is sorted to the end
Before(a, b) == ~IsNaN(a) /\ (IsNaN(b) \/ Less(a, b))

\* line 412: np.argsort with the default kind, which is not a stable sort: any
\* order of equal entries can come out
ArgSort(v) ==
    {p \in [DOMAIN v -> DOMAIN v] :
        /\ \A i, k \in DOMAIN v : i # k => p[i] # p[k]
        /\ \A i, k \in DOMAIN v : i < k => ~Before(v[p[k]], v[p[i]])}

\* lines 424-426: the entry of model j, which is i-th in the order
TableEntry(i, j, mres, ravg, reality, optimization_values) ==
    [order |-> i + 1,
     error_criterion |-> mres[j],
     predictions |-> reality[j][ArgMin(ravg[j])],
     best_config_optimized_value |-> optimization_values[ArgMin(ravg[j])]]

\* line 423
InTable(i, print_number_of_models) ==
    print_number_of_models = -1 \/ i < print_number_of_models

\* best_model_name given a value before the loop
BestModelNameDefaulted(sorted, names) ==
    IF DOMAIN sorted = {} THEN <<"None", 0>> ELSE names[sorted[0]]

\* lines 420-421: the name the loop leaves in best_model_name
BestModelName(sorted, names) ==
    IF DOMAIN sorted = {} THEN Unbound ELSE names[sorted[0]]

-----------------------------------------------------------------------------
(* main.py: compare_models, given what each predict() call of its loop does *)

Raised == [raised |-> TRUE, value |-> <<>>]

Returned(matrix) == [raised |-> FALSE, value |-> matrix]

\* nan in, nan out
SubN(a, b) == IF IsNaN(a) \/ IsNaN(b) THEN NaN ELSE SubF(a, b)

DivN(a, b) == IF IsNaN(a) \/ IsNaN(b) THEN NaN ELSE DivF(a, b)

\* line 718: (result - nanmin) / (nanmax - nanmin) over the whole matrix
Standardize(result, M, O) ==
    LET flat == Flatten(result, M, O)
        lo == NanMin(flat)
        hi == NanMax(flat)
    IN  [m \in Range0(M) |-> [o \in Range0(O) |-> DivN(SubN(result[m][o], lo), SubN(hi, lo))]]

\* lines 730-731: np.nanmean along the dataset axis
AllDataAverage(stack, M, O) ==
    [m \in Range0(M) |-> [o \in Range0(O) |-> NanMean([d \in DOMAIN stack |-> stack[d][m][o]])]]

ComparisonRaised(kind) ==
    [status |-> kind, models_table |-> <<>>, best_model |-> Unbound,
     best_optimized_value |-> NotOptimized]

compare_models(returns, used_models, M, O) ==
    LET failed == {d \in DOMAIN returns : returns[d].raised}
        \* lines 716-723 for the datasets whose predict() returned
        standardized == [d \in DOMAIN returns |-> Standardize(returns[d].value, M, O)]
        unstardized == [d \in DOMAIN returns |-> returns[d].value]
        all_data_average == AllDataAverage(standardized, M, O)
        unstardized_all_data_average == AllDataAverage(unstardized, M, O)
        models_best_results == [m \in Range0(M) |-> ModelResult(all_data_average[m])]
        unstardized_models_best_results ==
            [m \in Range0(M) |-> ModelResult(unstardized_all_data_average[m])]
        best_compared_model == NanArgMin(models_best_results)
        models_table ==
            [m \in Range0(M) |->
                <<used_models[m], models_best_results[m], unstardized_models_best_results[m]>>]
        all_lengths_average ==
            [o \in Range0(O) |-> NanMean([m \in Range0(M) |-> all_data_average[m][o]])]
        best_all_lengths_index == NanArgMin(all_lengths_average)
    IN  \* lines 725-726: np.stack of nan scalars with matrices, or of nothing
        IF failed # {} THEN ComparisonRaised("ValueError")
        \* line 744
        ELSE IF NanArgMinRaises(models_best_results) THEN ComparisonRaised("ValueError")
        \* lines 763-765
        ELSE IF O = 1
        THEN [status |-> "returned", models_table |-> models_table,
              best_model |-> used_models[best_compared_model],
              best_optimized_value |-> NotOptimized]
        \* lines 767-770
        ELSE [status |-> "returned", models_table |-> models_table,
              best_model |-> used_models[best_compared_model],
              best_optimized_value |-> best_all_lengths_index]

-----------------------------------------------------------------------------
(* The explored inputs *)

Errors == {Num(k) : k \in 0 .. MaxErr}

Cells == Errors \cup {NaN}

Idle == <<>>

\* the array of the docstring of analyze_results: np.array(range(27)).reshape(3, 3, 3)
DocArr == [d \in Range0(3) |-> [o \in Range0(3) |-> [m \in Range0(3) |-> Num(9 * d + 3 * o + m)]]]

AnalyzeInputs ==
    {DocArr} \cup
    UNION {[Range0(D) -> [Range0(O) -> [Range0(M) -> Cells]]] :
              <<D, O, M>> \in {s \in (1 .. MaxRepeat) \X (1 .. MaxOpt) \X (0 .. MaxModels) :
                                  s[1] * s[2] * s[3] <= MaxCells}}

\* the task of position k in dispatch order: the optimization loop is the outer one
TaskModel(k, M) == k % M

TaskOpt(k, M) == k \div M

\* every task has handed back a result, in dispatch order (sequential strategy)
ResultLists(R, M, O) ==
    {res \in [Range0(M * O) -> UNION {TaskResults(m, o, R, Errors) : m \in Range0(M), o \in Range0(O)}] :
        \A k \in Range0(M * O) : res[k].index = <<TaskModel(k, M), TaskOpt(k, M)>>}

\* a result that names row M of matrices that have the rows 0 .. M-1
ForeignResult(R, M) ==
    [index |-> <<M, 0>>, ok |-> TRUE, results |-> Predictions(M, 0),
     evaluated_matrix |-> [r \in Range0(R) |-> Num(0)]]

\* the run whose error of repetition r, model m, optimization index o is 9r + 3m + o
LiteralResults ==
    [k \in Range0(9) |->
        [index |-> <<k % 3, k \div 3>>, ok |-> TRUE, results |-> Predictions(k % 3, k \div 3),
         evaluated_matrix |-> [r \in Range0(3) |-> Num(9 * r + 3 * (k % 3) + (k \div 3))]]]

\* print_result stands for config.printit and config.print_result together
\* (lines 549-550); the runs sweep a config variable (config.optimization set),
\* so option_optimization_list is config.optimization_values (line 240)
PredictConfig(R, M, O, pnm, pr) ==
    [repeatit |-> R,
     used_models |-> [j \in Range0(M) |-> ModelName(j)],
     optimization_values |-> [o \in Range0(O) |-> ConfigValue(o)],
     print_number_of_models |-> pnm,
     print_result |-> pr]

Shapes(lowM) ==
    {s \in (1 .. MaxRepeat) \X (lowM .. MaxModels) \X (1 .. MaxOpt) : s[1] * s[2] * s[3] <= MaxCells}

-----------------------------------------------------------------------------
(* main.py: predict, the main loop that dispatches and collects the tasks   *)

\* values of config.models_input
InputTypes == {"batch", "one_step"}

\* line 352; 'one_step_constant' is treated as 'one_step' is
OneStepInputs == {"one_step", "one_step_constant"}

\* values of config.multiprocessing; "sequential" stands for a falsy value
Strategies == {"sequential", "process", "pool"}

\* list.append
Append0(a, x) == [k \in Range0(Size(a) + 1) |-> IF k < Size(a) THEN a[k] ELSE x]

\* a result whose predictions fit and whose error vector does not fit the
\* repetition axis of evaluated_matrix
MalformedResult(m, o, repeatit) ==
    [index |-> <<m, o>>, ok |-> TRUE, results |-> Predictions(m, o),
     evaluated_matrix |-> [r \in Range0(repeatit + 1) |-> Num(0)]]

\* the errors of the tasks of the main loop: the smallest and the largest
LoopErrors == {Num(0), Num(MaxErr)}

\* what a call of train_and_predict for the task (m, o) can return
Returns(m, o, repeatit) ==
    TaskResults(m, o, repeatit, LoopErrors) \cup {MalformedResult(m, o, repeatit)}

\* the config values the main loop reads; multicolumn_and_predicts stands for
\* "multicolumn and config.predicts > 1" (lines 202 and 353)
SchedConfig(R, M, O, multiprocessing, models_input, multicolumn_and_predicts) ==
    [repeatit |-> R,
     used_models |-> [j \in Range0(M) |-> ModelName(j)],
     optimization_values |-> [o \in Range0(O) |-> ConfigValue(o)],
     print_number_of_models |-> -1,
     print_result |-> FALSE,
     multiprocessing |-> multiprocessing,
     models_input |-> models_input,
     multicolumn_and_predicts |-> multicolumn_and_predicts]

\* lines 208-212
UsedInputTypes(cfg) == {cfg.models_input[j] : j \in DOMAIN cfg.used_models}

\* the orders in which a for loop can run through a set
Orderings(S) ==
    {f \in [Range0(Cardinality(S)) -> S] : \A x \in S : \E k \in Range0(Cardinality(S)) : f[k] = x}

\* predictit.models.models_assignment: the models the library has, in the
\* order of the dictionary
models_assignment == [k \in Range0(MaxModels + 1) |-> ModelName(k)]

\* line 205: the entries of models_assignment whose name is in
\* config.used_models, in the order of models_assignment
UsedModelsAssigned(used_models) ==
    LET kept == {k \in DOMAIN models_assignment :
                    \E j \in DOMAIN used_models : used_models[j] = models_assignment[k]}
    IN  [j \in Range0(Cardinality(kept)) |->
            models_assignment[CHOOSE k \in kept : Cardinality({k2 \in kept : k2 < k}) = j]]

\* every model is taken up by the loop of every input type
MatchesEveryInputType(cfg, j, input_type) == TRUE

\* line 342
Matches(cfg, j, input_type) == cfg.models_input[j] = input_type

\* lines 352-353
Refused(cfg, j) == cfg.models_input[j] \in OneStepInputs /\ cfg.multicolumn_and_predicts

\* the record kept of a train_and_predict call; pipe is what waits in the
\* receiving end of its pipe (process strategy)
Worker(m, o, state) == [index |-> <<m, o>>, state |-> state, pipe |-> <<>>]

-----------------------------------------------------------------------------
(* Initial states: one call of one of the three functions *)

InitAnalyze ==
    /\ call = "analyze_results"
    /\ pc = "start"
    /\ arr \in AnalyzeInputs
    /\ config = Idle /\ used_models_assigned = Idle /\ results = Idle
    /\ evaluated_matrix = Idle /\ reality_results_matrix = Idle
    /\ predict_returns = Idle

InitPredict ==
    /\ call = "predict"
    /\ pc = "fold"
    /\ arr = Idle
    /\ \/ \E s \in Shapes(0), pnm \in -1 .. MaxModels, pr \in BOOLEAN :
             /\ config = PredictConfig(s[1], s[2], s[3], pnm, pr)
             /\ results \in ResultLists(s[1], s[2], s[3])
       \/ /\ config = PredictConfig(3, 3, 3, -1, TRUE)
          /\ results = LiteralResults
       \/ \E s \in Shapes(1) :
             /\ config = PredictConfig(s[1], s[2], s[3], -1, FALSE)
             /\ \E res \in ResultLists(s[1], s[2], s[3]) :
                   results = Append0(res, ForeignResult(s[1], s[2]))
    \* line 205
    /\ used_models_assigned = UsedModelsAssigned(config.used_models)
    \* lines 249-254
    /\ evaluated_matrix =
           EmptyEvaluated(config.repeatit, Size(config.used_models), Size(config.optimization_values))
    /\ reality_results_matrix =
           EmptyReality(Size(config.used_models), Size(config.optimization_values))
    /\ predict_returns = Idle

InitCompare ==
    /\ call = "compare_models"
    /\ pc = "start"
    /\ arr = Idle
    /\ \E s \in Shapes(1) :
          \* config.used_models lists the models in any order
          /\ \E used_models \in Orderings({ModelName(j) : j \in Range0(s[2])}) :
                config = [PredictConfig(1, s[2], s[3], 0, FALSE) EXCEPT !.used_models = used_models]
          /\ predict_returns \in
                 [Range0(s[1]) -> {Raised} \cup
                                  {Returned(x) : x \in [Range0(s[2]) -> [Range0(s[3]) -> Cells]]}]
    /\ used_models_assigned = Idle /\ results = Idle
    /\ evaluated_matrix = Idle /\ reality_results_matrix = Idle

InitLocals ==
    /\ models_test_outputs = Idle /\ passes = Idle
    /\ function_kwargs = Idle /\ config_freezed = Idle /\ config_before = Idle
    /\ loop_index = 0 /\ predictions = Idle /\ calls = Idle
    /\ analysis = Idle
    /\ repeated_average = Idle
    /\ model_results = Idle
    /\ sorted_results = Idle
    /\ predicted_models_for_table = Idle
    /\ best_model_name = Unbound
    /\ best_model_predicts = Idle
    /\ predict_outcome = "running"
    /\ compared_result = Idle

Init ==
    /\ InitAnalyze \/ InitPredict \/ InitCompare
    /\ InitLocals
    /\ optimization_index = 0 /\ input_type_index = 0 /\ iterated_model_index = 0
    /\ used_input_types = Idle /\ workers = Idle /\ pipe_index = 0 /\ inputs_failed = {}

\* predict at line 264, before the first task
InitSched ==
    /\ call = "predict"
    /\ pc = "input_types"
    /\ arr = Idle
    /\ \E s \in Shapes(0), multiprocessing \in Strategies, refused \in BOOLEAN :
          \E models_input \in [Range0(s[2]) -> InputTypes] :
             config = SchedConfig(s[1], s[2], s[3], multiprocessing, models_input, refused)
    \* line 205
    /\ used_models_assigned = UsedModelsAssigned(config.used_models)
    \* line 207
    /\ results = <<>>
    \* lines 208-212
    /\ used_input_types \in Orderings(UsedInputTypes(config))
    \* lines 249-254
    /\ evaluated_matrix =
           EmptyEvaluated(config.repeatit, Size(config.used_models), Size(config.optimization_values))
    /\ reality_results_matrix =
           EmptyReality(Size(config.used_models), Size(config.optimization_values))
    /\ predict_returns = Idle
    /\ InitLocals
    /\ optimization_index = 0 /\ input_type_index = 0 /\ iterated_model_index = 0
    \* lines 223-225
    /\ workers = <<>> /\ pipe_index = 0 /\ inputs_failed = {}

-----------------------------------------------------------------------------
(* Actions *)

\* analyze.py, lines 246-340
AnalyzeResults ==
    /\ call = "analyze_results" /\ pc = "start"
    /\ analysis' = analyze_results(arr,
                       [o \in Range0(ShapeOf(arr)[2]) |-> ConfigValue(o)],
                       [m \in Range0(ShapeOf(arr)[3]) |-> ModelName(m)])
    /\ pc' = "done"
    /\ UNCHANGED <<sched, sweep, frame>>
    /\ UNCHANGED <<call, arr, config, used_models_assigned, results, evaluated_matrix,
                   reality_results_matrix, repeated_average, model_results,
                   sorted_results, predicted_models_for_table, best_model_name,
                   best_model_predicts, predict_outcome, predict_returns, compared_result>>

\* main.py, lines 385-391
Fold ==
    /\ call = "predict" /\ pc = "fold"
    /\ LET mats == FoldUpTo([evaluated_matrix |-> evaluated_matrix,
                             reality_results_matrix |-> reality_results_matrix],
                            results, Size(results))
       IN  /\ evaluated_matrix' = mats.evaluated_matrix
           /\ reality_results_matrix' = mats.reality_results_matrix
    /\ pc' = "evaluate"
    /\ UNCHANGED <<sched, sweep, frame>>
    /\ UNCHANGED <<call, arr, analysis, config, used_models_assigned, results,
                   repeated_average, model_results, sorted_results,
                   predicted_models_for_table, best_model_name, best_model_predicts,
                   predict_outcome, predict_returns, compared_result>>

\* main.py, lines 405-412
Evaluate ==
    /\ call = "predict" /\ pc = "evaluate"
    /\ repeated_average' =
           RepeatedAverage(evaluated_matrix, Size(used_models_assigned),
                           Size(config.optimization_values))
    /\ model_results' = [m \in DOMAIN repeated_average' |-> ModelResult(repeated_average'[m])]
    /\ sorted_results' \in ArgSort(model_results')
    /\ pc' = "rank"
    /\ UNCHANGED <<sched, sweep, frame>>
    /\ UNCHANGED <<call, arr, analysis, config, used_models_assigned, results,
                   evaluated_matrix, reality_results_matrix,
                   predicted_models_for_table, best_model_name, best_model_predicts,
                   predict_outcome, predict_returns, compared_result>>

\* main.py, lines 414-433
Rank ==
    /\ call = "predict" /\ pc = "rank"
    /\ LET shown == {i \in DOMAIN sorted_results : InTable(i, config.print_number_of_models)}
           table == [name \in {used_models_assigned[sorted_results[i]] : i \in shown} |->
                        LET i == CHOOSE k \in shown : used_models_assigned[sorted_results[k]] = name
                        IN  TableEntry(i, sorted_results[i], model_results, repeated_average,
                                       reality_results_matrix, config.optimization_values)]
           best == BestModelName(sorted_results, used_models_assigned)
       IN  /\ predicted_models_for_table' = table
           /\ best_model_name' = best
           /\ IF best = Unbound
              THEN \* line 433 reads best_model_name
                   /\ predict_outcome' = "UnboundLocalError"
                   /\ pc' = "done"
                   /\ UNCHANGED best_model_predicts
              ELSE /\ best_model_predicts' =
                          IF best \in DOMAIN table THEN table[best].predictions
                          ELSE BestModelHadAnError
                   /\ pc' = "return"
                   /\ UNCHANGED predict_outcome
    /\ UNCHANGED <<sched, sweep, frame>>
    /\ UNCHANGED <<call, arr, analysis, config, used_models_assigned, results,
                   evaluated_matrix, reality_results_matrix, repeated_average,
                   model_results, sorted_results, predict_returns, compared_result>>

\* main.py, lines 549-552 and 571-612; the plot and the tables printed in
\* between read the ranking and do not change it
Return ==
    /\ call = "predict" /\ pc = "return"
    /\ predict_outcome' =
           IF config.print_result /\ best_model_name \notin DOMAIN predicted_models_for_table
           THEN "KeyError"
           ELSE "returned"
    /\ pc' = "done"
    /\ UNCHANGED <<sched, sweep, frame>>
    /\ UNCHANGED <<call, arr, analysis, config, used_models_assigned, results,
                   evaluated_matrix, reality_results_matrix, repeated_average,
                   model_results, sorted_results, predicted_models_for_table,
                   best_model_name, best_model_predicts, predict_returns, compared_result>>

\* main.py, lines 700-775
CompareModels ==
    /\ call = "compare_models" /\ pc = "start"
    /\ compared_result' =
           compare_models(predict_returns, config.used_models, Size(config.used_models),
                          Size(config.optimization_values))
    /\ pc' = "done"
    /\ UNCHANGED <<sched, sweep, frame>>
    /\ UNCHANGED <<call, arr, analysis, config, used_models_assigned, results,
                   evaluated_matrix, reality_results_matrix, repeated_average,
                   model_results, sorted_results, predicted_models_for_table,
                   best_model_name, best_model_predicts, predict_outcome, predict_returns>>

Next == AnalyzeResults \/ Fold \/ Evaluate \/ Rank \/ Return \/ CompareModels

Spec == Init /\ [][Next]_vars

\* the variables the main loop leaves alone
ranking == <<call, arr, analysis, config, used_models_assigned, evaluated_matrix,
             reality_results_matrix, repeated_average, model_results, sorted_results,
             predicted_models_for_table, best_model_name, best_model_predicts,
             predict_returns, compared_result, used_input_types>>

\* lines 264 and 331: the input types of one optimization value are through
NextOptimizationValue ==
    /\ call = "predict" /\ pc = "input_types"
    /\ input_type_index = Size(used_input_types)
    /\ optimization_index' = optimization_index + 1
    /\ input_type_index' = 0
    /\ pc' = IF optimization_index + 1 = Size(config.optimization_values)
             THEN "collect" ELSE "input_types"
    /\ UNCHANGED <<iterated_model_index, workers, pipe_index, results, predict_outcome>>
    /\ UNCHANGED inputs_failed
    /\ UNCHANGED <<ranking, sweep, frame>>

\* create_inputs raising ends the loop over the input types (break)
CreateInputsBreaking ==
    /\ call = "predict" /\ pc = "input_types"
    /\ input_type_index < Size(used_input_types)
    /\ \/ /\ pc' = "models"
          /\ iterated_model_index' = 0
          /\ UNCHANGED <<input_type_index, inputs_failed>>
       \/ /\ input_type_index' = Size(used_input_types)
          /\ inputs_failed' =
                 inputs_failed \cup {<<optimization_index, used_input_types[input_type_index]>>}
          /\ UNCHANGED <<pc, iterated_model_index>>
    /\ UNCHANGED <<optimization_index, workers, pipe_index, results, predict_outcome>>
    /\ UNCHANGED <<ranking, sweep, frame>>

\* lines 331-339: the inputs of one input type are made, or create_inputs
\* raises and the input type is left out
CreateInputs ==
    /\ call = "predict" /\ pc = "input_types"
    /\ input_type_index < Size(used_input_types)
    /\ \/ /\ pc' = "models"
          /\ iterated_model_index' = 0
          /\ UNCHANGED <<input_type_index, inputs_failed>>
       \/ /\ input_type_index' = input_type_index + 1
          /\ inputs_failed' =
                 inputs_failed \cup {<<optimization_index, used_input_types[input_type_index]>>}
          /\ UNCHANGED <<pc, iterated_model_index>>
    /\ UNCHANGED <<optimization_index, workers, pipe_index, results, predict_outcome>>
    /\ UNCHANGED <<ranking, sweep, frame>>

\* lines 341-371, one pass of the loop over the models
IterateModel ==
    /\ call = "predict" /\ pc = "models"
    /\ LET j == iterated_model_index
           o == optimization_index
       IN  IF j = Size(used_models_assigned)
           THEN /\ input_type_index' = input_type_index + 1
                /\ pc' = "input_types"
                /\ UNCHANGED <<iterated_model_index, workers, results, predict_outcome>>
           ELSE IF ~Matches(config, j, used_input_types[input_type_index])
           THEN /\ iterated_model_index' = j + 1
                /\ UNCHANGED <<input_type_index, pc, workers, results, predict_outcome>>
           ELSE IF Refused(config, j)
           THEN \* lines 353-357: a warning, then continue
                /\ iterated_model_index' = j + 1
                /\ UNCHANGED <<input_type_index, pc, workers, results, predict_outcome>>
           ELSE IF config.multiprocessing = "process"
           THEN /\ workers' = Append0(workers, Worker(j, o, "running"))
                /\ iterated_model_index' = j + 1
                /\ UNCHANGED <<input_type_index, pc, results, predict_outcome>>
           ELSE IF config.multiprocessing = "pool"
           THEN /\ workers' = Append0(workers, Worker(j, o, "queued"))
                /\ iterated_model_index' = j + 1
                /\ UNCHANGED <<input_type_index, pc, results, predict_outcome>>
           ELSE \* line 371: the call is made here and now
                \/ \E v \in Returns(j, o, config.repeatit) :
                      /\ results' = Append0(results, v)
                      /\ workers' = Append0(workers, Worker(j, o, "returned"))
                      /\ iterated_model_index' = j + 1
                      /\ UNCHANGED <<input_type_index, pc, predict_outcome>>
                \/ \* the call raises: nothing of predict catches it
                   /\ workers' = Append0(workers, Worker(j, o, "raised"))
                   /\ predict_outcome' = "Exception"
                   /\ pc' = "done"
                   /\ UNCHANGED <<input_type_index, iterated_model_index, results>>
    /\ UNCHANGED <<optimization_index, pipe_index>>
    /\ UNCHANGED inputs_failed
    /\ UNCHANGED <<ranking, sweep, frame>>

\* lines 361-364: the child process runs train_and_predict, which sends its
\* result through the pipe; a call that raises ends the process with nothing sent
ProcessRun(k) ==
    /\ call = "predict" /\ config.multiprocessing = "process"
    /\ workers[k].state = "running"
    /\ \/ \E v \in Returns(workers[k].index[1], workers[k].index[2], config.repeatit) :
             workers' = [workers EXCEPT ![k] = [@ EXCEPT !.state = "exited", !.pipe = <<v>>]]
       \/ workers' = [workers EXCEPT ![k] = [@ EXCEPT !.state = "exited"]]
    /\ UNCHANGED <<optimization_index, input_type_index, iterated_model_index, pipe_index,
                   pc, results, predict_outcome>>
    /\ UNCHANGED inputs_failed
    /\ UNCHANGED <<ranking, sweep, frame>>

\* lines 234-235 and 368: a pool worker runs the task; return_result is called
\* with what it returns, and nothing is called when it raises (apply_async is
\* given no error_callback)
PoolRun(k) ==
    /\ call = "predict" /\ config.multiprocessing = "pool"
    /\ workers[k].state = "queued"
    /\ workers' = [workers EXCEPT ![k] = [@ EXCEPT !.state = "done"]]
    /\ \/ \E v \in Returns(workers[k].index[1], workers[k].index[2], config.repeatit) :
             results' = Append0(results, v)
       \/ UNCHANGED results
    /\ UNCHANGED <<optimization_index, input_type_index, iterated_model_index, pipe_index,
                   pc, predict_outcome>>
    /\ UNCHANGED inputs_failed
    /\ UNCHANGED <<ranking, sweep, frame>>

\* lines 375-379, one pass: recv() waits until the pipe holds a message.  The
\* end of the pipe given to the child stays open in predict, so the wait is
\* not ended by the child going away.
Recv ==
    /\ call = "predict" /\ pc = "collect" /\ config.multiprocessing = "process"
    /\ pipe_index < Size(workers)
    /\ workers[pipe_index].pipe # <<>>
    /\ results' = Append0(results, workers[pipe_index].pipe[1])
    /\ workers' = [workers EXCEPT ![pipe_index] = [@ EXCEPT !.pipe = <<>>]]
    /\ pipe_index' = pipe_index + 1
    /\ UNCHANGED <<optimization_index, input_type_index, iterated_model_index,
                   pc, predict_outcome>>
    /\ UNCHANGED inputs_failed
    /\ UNCHANGED <<ranking, sweep, frame>>

\* lines 373-383: the collection is over; pool.join() waits for every task
Join ==
    /\ call = "predict" /\ pc = "collect"
    /\ CASE config.multiprocessing = "process" -> pipe_index = Size(workers)
         [] config.multiprocessing = "pool" -> \A k \in DOMAIN workers : workers[k].state = "done"
         [] OTHER -> TRUE
    /\ pc' = "fold"
    /\ UNCHANGED <<optimization_index, input_type_index, iterated_model_index, pipe_index,
                   workers, results, predict_outcome>>
    /\ UNCHANGED inputs_failed
    /\ UNCHANGED <<ranking, sweep, frame>>

NextSched ==
    \/ NextOptimizationValue
    \/ CreateInputs
    \/ IterateModel
    \/ \E k \in DOMAIN workers : ProcessRun(k)
    \/ \E k \in DOMAIN workers : PoolRun(k)
    \/ Recv
    \/ Join
    \/ Fold
    \/ Evaluate
    \/ Rank
    \/ Return

SpecSched == InitSched /\ [][NextSched]_vars

-----------------------------------------------------------------------------
(* main.py: predict, the head of a pass of the main loop (lines 194-338).   *)
(* The data are the values 0 .. n-1, so a window shows the positions it was *)
(* cut from; config.data is their number.                                   *)

\* what config.optimization_variable holds: the name of a config variable,
\* None, or an optimization value assigned to it
VariableName(name) == [kind |-> "name", name |-> name, value |-> 0]

None == [kind |-> "None", name |-> "", value |-> 0]

Value(v) == [kind |-> "value", name |-> "", value |-> v]

\* the truth value Python gives it (line 266)
Truthy(x) == x.kind = "name" \/ (x.kind = "value" /\ x.value # 0)

SweepConfig(optimization, optimization_values, repeatit, predicts, data, mode) ==
    [optimization |-> optimization,
     optimization_variable |-> VariableName("default_n_steps_in"),
     optimization_values |-> optimization_values,
     default_n_steps_in |-> 1,
     repeatit |-> repeatit,
     predicts |-> predicts,
     data |-> data,
     mode |-> mode]

\* lines 239-242
OptionOptimizationList(cfg) ==
    IF cfg.optimization THEN cfg.optimization_values ELSE [k \in Range0(1) |-> NotOptimized]

\* data[start:stop] of a sequence of n values, start and stop counted from
\* the end when negative and clamped to the sequence
PySlice(n, start, stop) ==
    LET lo == IF start < 0 THEN (IF n + start < 0 THEN 0 ELSE n + start)
              ELSE (IF start > n THEN n ELSE start)
        hi == IF stop < 0 THEN (IF n + stop < 0 THEN 0 ELSE n + stop)
              ELSE (IF stop > n THEN n ELSE stop)
    IN  [c \in Range0(IF hi > lo THEN hi - lo ELSE 0) |-> lo + c]

\* lines 322 and 326: the window that is assigned to row i
TestWindow(n, predicts, i) ==
    IF i > 0 THEN PySlice(n, (-predicts) - i, -i) ELSE PySlice(n, (-predicts) - i, n)

\* the assignment of a window to a row of `predicts` cells raises ValueError
\* unless the window has that length or the length 1
RowRaises(window, predicts) == Size(window) # predicts /\ Size(window) # 1

\* the row after the assignment: one value is broadcast to every cell
RowAssigned(window, predicts) ==
    [c \in Range0(predicts) |-> IF Size(window) = 1 THEN window[0] ELSE window[c]]

\* line 329
Reversed(a) == [k \in DOMAIN a |-> a[Size(a) - 1 - k]]

\* lines 318-329
ModelsTestOutputs(n, repeatit, predicts) ==
    Reversed([i \in Range0(repeatit) |-> RowAssigned(TestWindow(n, predicts, i), predicts)])

\* lines 338-339: config.freeze() without 'data'
ConfigMultiprocessed(cfg) ==
    [optimization |-> cfg.optimization,
     optimization_variable |-> cfg.optimization_variable,
     optimization_values |-> cfg.optimization_values,
     default_n_steps_in |-> cfg.default_n_steps_in,
     repeatit |-> cfg.repeatit,
     predicts |-> cfg.predicts,
     mode |-> cfg.mode]

\* predict at line 194, the data consolidated
InitSweep ==
    /\ call = "predict"
    /\ pc = "consolidate"
    /\ arr = Idle
    /\ \E repeatit \in 1 .. MaxData, predicts \in 1 .. MaxPredicts, data \in 1 .. MaxData,
          mode \in {"predict", "validate"} :
          \/ \E O \in 1 .. MaxOpt : \E optimization_values \in [Range0(O) -> 0 .. MaxOpt] :
                config = SweepConfig(TRUE, optimization_values, repeatit, predicts, data, mode)
          \/ config = SweepConfig(FALSE, [k \in Range0(1) |-> 1], repeatit, predicts, data, mode)
    /\ used_models_assigned = Idle /\ results = Idle
    /\ evaluated_matrix = Idle /\ reality_results_matrix = Idle
    /\ predict_returns = Idle
    /\ InitLocals
    /\ optimization_index = 0 /\ input_type_index = 0 /\ iterated_model_index = 0
    /\ used_input_types = Idle /\ workers = Idle /\ pipe_index = 0 /\ inputs_failed = {}

\* the variables the head of a pass leaves alone
tail == <<call, arr, analysis, used_models_assigned, results, reality_results_matrix,
          repeated_average, model_results, sorted_results, predicted_models_for_table,
          best_model_name, best_model_predicts, predict_returns, compared_result,
          input_type_index, iterated_model_index, used_input_types, workers, pipe_index,
          inputs_failed>>

\* lines 194-254: validate mode takes one repetition and the last `predicts`
\* rows away from the data; the matrices are allocated (for one model here)
Allocate ==
    /\ call = "predict" /\ pc = "consolidate"
    /\ LET cfg1 == IF config.mode = "validate" THEN [config EXCEPT !.repeatit = 1] ELSE config
           cfg2 == IF cfg1.optimization THEN cfg1 ELSE [cfg1 EXCEPT !.optimization_variable = None]
       IN  /\ config' = cfg2
           /\ evaluated_matrix' =
                  EmptyEvaluated(cfg2.repeatit, 1, Size(OptionOptimizationList(cfg2)))
    /\ pc' = "pass"
    /\ passes' = <<>>
    /\ UNCHANGED <<optimization_index, predict_outcome, models_test_outputs>>
    /\ UNCHANGED <<tail, frame>>

\* len(column_for_predictions) at line 287: in validate mode split() has
\* taken the test rows away
DataLength(cfg) == IF cfg.mode = "validate" THEN cfg.data - cfg.predicts ELSE cfg.data

\* lines 264-313: the next optimization value is taken up
PassHead ==
    /\ call = "predict" /\ pc = "pass"
    /\ optimization_index < Size(OptionOptimizationList(config))
    /\ LET optimization_value == OptionOptimizationList(config)[optimization_index]
           \* lines 266-267
           cfg1 == IF Truthy(config.optimization_variable)
                   THEN [config EXCEPT !.optimization_variable = Value(optimization_value)]
                   ELSE config
           data_length == DataLength(cfg1)
           short == data_length < 3 * cfg1.predicts + cfg1.default_n_steps_in
           \* lines 309-311
           cfg2 == IF short THEN [cfg1 EXCEPT !.repeatit = 1] ELSE cfg1
           min_data_length ==
               IF short
               THEN 3 * cfg2.predicts + cfg2.repeatit * cfg2.predicts + cfg2.default_n_steps_in
               ELSE 3 * cfg1.predicts + cfg1.default_n_steps_in
       IN  /\ config' = cfg2
           \* line 313
           /\ IF min_data_length < data_length
              THEN pc' = "test_outputs" /\ UNCHANGED predict_outcome
              ELSE pc' = "done" /\ predict_outcome' = "AssertionError"
    /\ UNCHANGED <<optimization_index, evaluated_matrix, models_test_outputs, passes>>
    /\ UNCHANGED <<tail, frame>>

\* lines 315-329
TestOutputs ==
    /\ call = "predict" /\ pc = "test_outputs"
    /\ IF config.mode = "validate"
       THEN \* line 316: test is what split() took away
            /\ models_test_outputs' =
                   [k \in Range0(1) |-> PySlice(config.data, -config.predicts, config.data)]
            /\ pc' = "dispatch"
            /\ UNCHANGED predict_outcome
       ELSE IF \E i \in Range0(config.repeatit) :
                  RowRaises(TestWindow(config.data, config.predicts, i), config.predicts)
       THEN /\ predict_outcome' = "ValueError"
            /\ pc' = "done"
            /\ UNCHANGED models_test_outputs
       ELSE /\ models_test_outputs' =
                   ModelsTestOutputs(config.data, config.repeatit, config.predicts)
            /\ pc' = "dispatch"
            /\ UNCHANGED predict_outcome
    /\ UNCHANGED <<config, optimization_index, evaluated_matrix, passes>>
    /\ UNCHANGED <<tail, frame>>

\* lines 331-372: the inputs are made from the config and the tasks of the
\* pass get config_multiprocessed and models_test_outputs
Dispatch ==
    /\ call = "predict" /\ pc = "dispatch"
    /\ passes' = Append0(passes, [config |-> ConfigMultiprocessed(config),
                                  models_test_outputs |-> models_test_outputs])
    /\ optimization_index' = optimization_index + 1
    /\ pc' = "pass"
    /\ UNCHANGED <<config, evaluated_matrix, models_test_outputs, predict_outcome>>
    /\ UNCHANGED <<tail, frame>>

\* line 264: the list of optimization values is through
LoopEnd ==
    /\ call = "predict" /\ pc = "pass"
    /\ optimization_index = Size(OptionOptimizationList(config))
    /\ pc' = "done"
    /\ UNCHANGED <<config, optimization_index, evaluated_matrix, models_test_outputs,
                   passes, predict_outcome>>
    /\ UNCHANGED <<tail, frame>>

NextSweep == Allocate \/ PassHead \/ TestOutputs \/ Dispatch \/ LoopEnd

SpecSweep == InitSweep /\ [][NextSweep]_vars

-----------------------------------------------------------------------------
(* main.py: predict, predict_multiple_columns and compare_models as far as  *)
(* they touch the global config.  The config is a function from the names   *)
(* of its attributes to their values, a dictionary likewise.                *)

\* config.update(d): every key of d is set, a key the config has not is added
Update(cfg, d) == [k \in DOMAIN cfg \cup DOMAIN d |-> IF k \in DOMAIN d THEN d[k] ELSE cfg[k]]

\* config.freeze(): a copy of the attributes as a dictionary
Freeze(cfg) == cfg

\* None as a column or a frequency
PNone == -1

CallConfig(repeatit, data, use_config_preset, freqs, predicted_columns, data_all) ==
    [repeatit |-> repeatit,
     data |-> data,
     use_config_preset |-> use_config_preset,
     predicted_column |-> PNone,
     freq |-> PNone,
     freqs |-> freqs,
     predicted_columns |-> predicted_columns,
     mode |-> "predict",
     return_type |-> "best",
     data_all |-> data_all]

\* line 156: the names predictit.configuration.orig_config has
orig_config ==
    {"repeatit", "data", "use_config_preset", "predicted_column", "freq", "freqs",
     "predicted_columns", "mode", "return_type", "data_all"}

\* config.presets[name]
Preset(name) == [repeatit |-> 1]

\* what happens in predict behind line 197
Later == {"returned", "too few data", "raises"}

NoValue == <<>>

\* predict as far as the config goes: what it raises or returns, and the
\* config it leaves behind
predict(cfg, kwargs, later) ==
    LET frozen == Freeze(cfg)                                            \* line 119
        c1 == IF cfg.use_config_preset # "none"                          \* lines 144-146
              THEN Update(cfg, Preset(cfg.use_config_preset)) ELSE cfg
        c2 == Update(c1, kwargs)                                         \* line 149
        c3 == IF c2.repeatit = 0 THEN [c2 EXCEPT !.repeatit = 1] ELSE c2 \* lines 152-153
        c4 == IF c3.data = "path" THEN [c3 EXCEPT !.data = "loaded"] ELSE c3   \* lines 175-176
        c5 == IF c4.predicted_column \in {PNone, 0}                      \* lines 185-186
              THEN [c4 EXCEPT !.predicted_column = 0] ELSE c4
        c6 == IF c5.mode = "validate" THEN [c5 EXCEPT !.repeatit = 1] ELSE c5  \* lines 194-195
        c7 == [c6 EXCEPT !.repeatit = 1]                                 \* line 310
    IN  IF DOMAIN c3 \ orig_config # {}                                  \* lines 156-158
        THEN [outcome |-> "KeyError", config |-> c3, value |-> NoValue]
        ELSE IF c4.data = "None"                                         \* lines 182-183
        THEN [outcome |-> "TypeError", config |-> c4, value |-> NoValue]
        ELSE IF later = "too few data"                                   \* lines 309-313
        THEN [outcome |-> "AssertionError", config |-> c7, value |-> NoValue]
        ELSE IF later = "raises"
        THEN [outcome |-> "Exception", config |-> c6, value |-> NoValue]
        \* lines 571-616
        ELSE [outcome |-> "returned", config |-> Update(c6, frozen),
              value |-> <<c6.predicted_column, c6.freq>>]

\* lines 638-639 and 650-652: the pairs in the order of the two loops
Pairs(cfg) ==
    LET freqs == IF Size(cfg.freqs) # 0 THEN cfg.freqs ELSE [k \in Range0(1) |-> PNone]
        predicted_columns ==
            IF Size(cfg.predicted_columns) # 0 THEN cfg.predicted_columns
            ELSE [k \in Range0(1) |-> PNone]
        n == Size(predicted_columns)
    IN  [k \in Range0(Size(freqs) * n) |-> [c |-> predicted_columns[k % n], f |-> freqs[k \div n]]]

\* line 654: f"Column: {c} - Freq: {f}"
Key(c, f) == <<"Column: ", c, " - Freq: ", f>>

\* line 694-697: the three generated series
DefaultDataAll == [d \in Range0(3) |-> [data |-> "loaded", predicted_column |-> 0]]

\* the keyword arguments tried: none, a config value, a name the config has not
Kwargs == {<<>>, [repeatit |-> 1], [predicted_colum |-> 1]}

InitCalls ==
    /\ pc = "start"
    /\ arr = Idle
    /\ \E repeatit \in {0, MaxRepeat}, use_config_preset \in {"none", "fast"} :
          \/ /\ call = "predict"
             /\ \E data \in {"None", "path", "loaded"} :
                   config = CallConfig(repeatit, data, use_config_preset, <<>>, <<>>, <<>>)
          \/ /\ call = "predict_multiple_columns"
             /\ \E F \in 0 .. MaxFreqs, C \in 0 .. MaxColumns, data \in {"None", "loaded"} :
                   /\ F * C <= MaxCells
                   /\ config = CallConfig(repeatit, data, use_config_preset,
                                          [k \in Range0(F) |-> k + 1], [k \in Range0(C) |-> k], <<>>)
          \/ /\ call = "compare_models"
             /\ \E D \in 0 .. MaxRepeat :
                   config = CallConfig(repeatit, "None", use_config_preset, <<>>, <<>>,
                                [d \in Range0(D) |-> [data |-> "loaded", predicted_column |-> d]])
    /\ function_kwargs \in Kwargs
    /\ config_before = config
    /\ config_freezed = Idle
    /\ loop_index = 0
    /\ predictions = <<>>
    /\ calls = <<>>
    /\ models_test_outputs = Idle /\ passes = Idle
    /\ used_models_assigned = Idle /\ results = Idle
    /\ evaluated_matrix = Idle /\ reality_results_matrix = Idle
    /\ predict_returns = Idle
    /\ analysis = Idle /\ repeated_average = Idle /\ model_results = Idle
    /\ sorted_results = Idle /\ predicted_models_for_table = Idle
    /\ best_model_name = Unbound /\ best_model_predicts = Idle
    /\ predict_outcome = "running" /\ compared_result = Idle
    /\ optimization_index = 0 /\ input_type_index = 0 /\ iterated_model_index = 0
    /\ used_input_types = Idle /\ workers = Idle /\ pipe_index = 0 /\ inputs_failed = {}

\* the variables these calls leave alone
rest == <<arr, analysis, used_models_assigned, results, evaluated_matrix,
          reality_results_matrix, repeated_average, model_results, sorted_results,
          predicted_models_for_table, best_model_name, best_model_predicts,
          predict_returns, compared_result, sched, sweep, call, function_kwargs,
          config_before>>

\* the record kept of a predict() call of a loop
Called(pair, cfg, outcome) == [pair |-> pair, config |-> cfg, outcome |-> outcome]

\* lines 90-616: predict called by the user
PredictCall ==
    /\ call = "predict" /\ pc = "start"
    /\ \E later \in Later :
          LET r == predict(config, function_kwargs, later)
          IN  /\ config' = r.config
              /\ predict_outcome' = r.outcome
    /\ pc' = "done"
    /\ UNCHANGED <<config_freezed, loop_index, predictions, calls>>
    /\ UNCHANGED rest

\* lines 634-648
MultipleColumnsStart ==
    /\ call = "predict_multiple_columns" /\ pc = "start"
    /\ config_freezed' = Freeze(config)
    /\ LET c1 == Update(config, function_kwargs)
       IN  config' = IF c1.data \in {"None", "path"} THEN [c1 EXCEPT !.data = "loaded"] ELSE c1
    /\ predictions' = <<>>
    /\ pc' = "loop"
    /\ UNCHANGED <<loop_index, calls, predict_outcome>>
    /\ UNCHANGED rest

\* one pass of the loops with the try around both of them
MultipleColumnsCallBreaking ==
    /\ call = "predict_multiple_columns" /\ pc = "loop"
    /\ loop_index < Size(Pairs(config))
    /\ \E later \in Later :
          LET pair == Pairs(config)[loop_index]
              r == predict(config, [predicted_column |-> pair.c, freq |-> pair.f], later)
          IN  /\ config' = r.config
              /\ calls' = Append0(calls, Called(pair, config, r.outcome))
              /\ IF r.outcome = "returned"
                 THEN /\ predictions' = [k \in DOMAIN predictions \cup {Key(pair.c, pair.f)} |->
                                            IF k = Key(pair.c, pair.f) THEN r.value
                                            ELSE predictions[k]]
                      /\ loop_index' = loop_index + 1
                 ELSE /\ UNCHANGED predictions
                      /\ loop_index' = Size(Pairs(config))
    /\ UNCHANGED <<pc, config_freezed, predict_outcome>>
    /\ UNCHANGED rest

\* lines 650-660: one pass of the loops
MultipleColumnsCall ==
    /\ call = "predict_multiple_columns" /\ pc = "loop"
    /\ loop_index < Size(Pairs(config))
    /\ \E later \in Later :
          LET pair == Pairs(config)[loop_index]
              r == predict(config, [predicted_column |-> pair.c, freq |-> pair.f], later)
          IN  /\ config' = r.config
              /\ calls' = Append0(calls, Called(pair, config, r.outcome))
              /\ predictions' =
                     IF r.outcome = "returned"
                     THEN [k \in DOMAIN predictions \cup {Key(pair.c, pair.f)} |->
                              IF k = Key(pair.c, pair.f) THEN r.value ELSE predictions[k]]
                     ELSE predictions
    /\ loop_index' = loop_index + 1
    /\ UNCHANGED <<pc, config_freezed, predict_outcome>>
    /\ UNCHANGED rest

\* lines 669-672
MultipleColumnsReturn ==
    /\ call = "predict_multiple_columns" /\ pc = "loop"
    /\ loop_index = Size(Pairs(config))
    /\ config' = Update(config, config_freezed)
    /\ predict_outcome' = "returned"
    /\ pc' = "done"
    /\ UNCHANGED <<config_freezed, loop_index, predictions, calls>>
    /\ UNCHANGED rest

\* lines 685-708
CompareStart ==
    /\ call = "compare_models" /\ pc = "start"
    /\ config_freezed' = Freeze(config)
    /\ LET c1 == Update(config, function_kwargs)
           c2 == Update(c1, [return_type |-> "models_error_criterion", mode |-> "validate"])
       IN  config' = IF Size(c2.data_all) = 0 THEN [c2 EXCEPT !.data_all = DefaultDataAll] ELSE c2
    /\ pc' = "loop"
    /\ UNCHANGED <<loop_index, predictions, calls, predict_outcome>>
    /\ UNCHANGED rest

\* lines 710-723: one pass of the loop
CompareCall ==
    /\ call = "compare_models" /\ pc = "loop"
    /\ loop_index < Size(config.data_all)
    /\ \E later \in Later :
          LET j == config.data_all[loop_index]
              c1 == [config EXCEPT !.data = j.data, !.predicted_column = j.predicted_column]
              r == predict(c1, <<>>, later)
          IN  /\ config' = r.config
              /\ calls' = Append0(calls, Called(loop_index, c1, r.outcome))
    /\ loop_index' = loop_index + 1
    /\ UNCHANGED <<pc, config_freezed, predictions, predict_outcome>>
    /\ UNCHANGED rest

\* lines 725-775: np.stack raises when a dataset failed, np.nanargmin when
\* every error is nan
CompareReturn ==
    /\ call = "compare_models" /\ pc = "loop"
    /\ loop_index = Size(config.data_all)
    /\ IF \E k \in DOMAIN calls : calls[k].outcome # "returned"
       THEN predict_outcome' = "ValueError" /\ UNCHANGED config
       ELSE \/ predict_outcome' = "ValueError" /\ UNCHANGED config
            \/ predict_outcome' = "returned" /\ config' = Update(config, config_freezed)
    /\ pc' = "done"
    /\ UNCHANGED <<config_freezed, loop_index, predictions, calls>>
    /\ UNCHANGED rest

NextCalls ==
    \/ PredictCall
    \/ MultipleColumnsStart
    \/ MultipleColumnsCall
    \/ MultipleColumnsReturn
    \/ CompareStart
    \/ CompareCall
    \/ CompareReturn

SpecCalls == InitCalls /\ [][NextCalls]_vars

-----------------------------------------------------------------------------
(* What the claims speak about *)

AnalyzeDone == call = "analyze_results" /\ pc = "done"

\* predict has ranked the models (lines 405-433 are behind it)
Ranked == call = "predict" /\ pc \in {"return", "done"} /\ best_model_name # Unbound

CompareDone == call = "compare_models" /\ pc = "done"

NoMissing(a) ==
    \A d \in DOMAIN a : \A o \in DOMAIN a[d] : \A m \in DOMAIN a[d][o] : ~IsNaN(a[d][o][m])

\* the reference reduction of results[dataset][optimized][model]: the mean over
\* the datasets first, then per model the minimum over the optimized values
RefAverage(a) ==
    [o \in Range0(ShapeOf(a)[2]) |->
        [m \in Range0(ShapeOf(a)[3]) |-> NanMean([d \in DOMAIN a |-> a[d][o][m]])]]

RefOfModel(a, m) == [o \in Range0(ShapeOf(a)[2]) |-> RefAverage(a)[o][m]]

RefBestErrors(a) == [m \in Range0(ShapeOf(a)[3]) |-> NanMin(RefOfModel(a, m))]

RefOfValue(a) == [o \in Range0(ShapeOf(a)[2]) |-> NanMean(RefAverage(a)[o])]

\* the rows of the matrices of predict that hold nan only
AllMissingModels == {m \in DOMAIN model_results : IsNaN(model_results[m])}

\* C1: on an array without missing entries analyze_results returns, per model,
\* the minimum over the optimized values of the mean over the datasets.
C1_BestErrorsAreMeanThenMin ==
    (AnalyzeDone /\ NoMissing(arr) /\ ShapeOf(arr)[3] >= 1)
        => /\ analysis.status = "returned"
           /\ analysis.best_results_errors = RefBestErrors(arr)

\* C2: the best model is the one with the lowest best error, and of two models
\* with the same best error the one with the lower index is named, by
\* analyze_results and by predict.
C2_LowestIndexWinsTies ==
    /\ (AnalyzeDone /\ NoMissing(arr) /\ ShapeOf(arr)[3] >= 1)
           => /\ analysis.status = "returned"
              /\ analysis.best_model_name = ModelName(NanArgMin(RefBestErrors(arr)))
    /\ (Ranked /\ AllMissingModels # DOMAIN model_results)
           => best_model_name = used_models_assigned[NanArgMin(model_results)]

\* C3: analyze_results maps every model name to the optimized value with the
\* lowest averaged error of that model, the first one on a tie.
C3_BestOptimizedValuePerModel ==
    (AnalyzeDone /\ NoMissing(arr) /\ ShapeOf(arr)[3] >= 1)
        => /\ analysis.status = "returned"
           /\ DOMAIN analysis.best_models_optimized_values_dict =
                  {ModelName(m) : m \in Range0(ShapeOf(arr)[3])}
           /\ \A m \in Range0(ShapeOf(arr)[3]) :
                  analysis.best_models_optimized_values_dict[ModelName(m)] =
                      ConfigValue(NanArgMin(RefOfModel(arr, m)))

\* C4: with exactly one optimization value the global best optimized value is
\* 'Not optimized' and the table of the optimized values is empty; with more
\* than one the sentinel is never returned.
C4_NotOptimizedExactlyForOneValue ==
    /\ (AnalyzeDone /\ NoMissing(arr) /\ ShapeOf(arr)[3] >= 1)
           => /\ analysis.status = "returned"
              /\ ShapeOf(arr)[2] = 1 =>
                     /\ analysis.best_optimized_value = NotOptimized
                     /\ analysis.optimized_values_results_df = <<>>
              /\ ShapeOf(arr)[2] > 1 => analysis.best_optimized_value # NotOptimized
    /\ (CompareDone /\ \A d \in DOMAIN predict_returns :
                           ~predict_returns[d].raised /\ NoMissing(<<predict_returns[d].value>>))
           => /\ compared_result.status = "returned"
              /\ compared_result.best_optimized_value = NotOptimized
                     <=> Size(config.optimization_values) = 1

\* C5: with more than one optimization value the global best optimized value
\* is the optimization value (not its index) with the lowest error averaged
\* over models and datasets, and the table holds that average per value.
C5_GlobalBestIsTheValue ==
    /\ (AnalyzeDone /\ NoMissing(arr) /\ ShapeOf(arr)[3] >= 1 /\ ShapeOf(arr)[2] > 1)
           => /\ analysis.status = "returned"
              /\ analysis.best_optimized_value = ConfigValue(NanArgMin(RefOfValue(arr)))
              /\ analysis.optimized_values_results_df = RefOfValue(arr)
    /\ (CompareDone /\ compared_result.status = "returned"
                    /\ Size(config.optimization_values) > 1)
           => compared_result.best_optimized_value \in
                  {config.optimization_values[o] : o \in DOMAIN config.optimization_values}

\* the run of the scenario has been ranked
LiteralRanked == Ranked /\ results = LiteralResults

\* the optimization index predict reports for the model in row j
ReportedIndex(j) == ArgMin(repeated_average[j])

MissingInArr(a) ==
    {m \in Range0(ShapeOf(a)[3]) :
        \A d \in DOMAIN a : \A o \in DOMAIN a[d] : IsNaN(a[d][o][m])}

\* C7: when every cell of one model is missing and another model has an error,
\* the aggregation completes, the model's best error is missing and the model
\* is not the best model.
C7_MissingModelNeverBest ==
    /\ (AnalyzeDone /\ MissingInArr(arr) # {} /\ MissingInArr(arr) # Range0(ShapeOf(arr)[3]))
           => /\ analysis.status = "returned"
              /\ \A m \in MissingInArr(arr) :
                     /\ IsNaN(analysis.best_results_errors[m])
                     /\ analysis.best_model_name # ModelName(m)
    /\ (call = "predict" /\ pc \in {"return", "done"}
            /\ AllMissingModels # {} /\ AllMissingModels # DOMAIN model_results)
           => /\ predict_outcome \in {"running", "returned", "KeyError"}
              /\ \A m \in AllMissingModels : best_model_name # used_models_assigned[m]

\* C8: for every ranked model with a non-missing averaged error, predict
\* reports the optimized value and the predictions of the optimization index
\* with the lowest non-missing averaged error.
C8_ReportedIndexIgnoresMissing ==
    Ranked =>
        \A j \in DOMAIN model_results :
            (used_models_assigned[j] \in DOMAIN predicted_models_for_table
                 /\ Valid(repeated_average[j]) # {})
                => LET entry == predicted_models_for_table[used_models_assigned[j]]
                       lowest == NanArgMin(repeated_average[j])
                   IN  /\ entry.best_config_optimized_value = config.optimization_values[lowest]
                       /\ entry.predictions = reality_results_matrix[j][lowest]

\* C9: when every cell of every model is missing, neither analyze_results nor
\* predict names a best model: both end with an error.
C9_AllMissingIsAnError ==
    /\ (AnalyzeDone /\ ShapeOf(arr)[3] >= 1 /\ MissingInArr(arr) = Range0(ShapeOf(arr)[3]))
           => analysis.status # "returned"
    /\ (call = "predict" /\ pc \in {"return", "done"}
            /\ DOMAIN model_results # {} /\ AllMissingModels = DOMAIN model_results)
           => /\ best_model_name = Unbound
              /\ predict_outcome # "returned"

\* C10: with an empty model set analyze_results and predict end with an error
\* and hand back no best model and no table.
C10_EmptyModelSetFails ==
    /\ (AnalyzeDone /\ ShapeOf(arr)[3] = 0)
           => /\ analysis.status # "returned"
              /\ analysis.best_model_name = Unbound
    /\ (call = "predict" /\ Size(config.used_models) = 0)
           => /\ predict_outcome # "returned"
              /\ best_model_name = Unbound
              /\ DOMAIN predicted_models_for_table = {}
              /\ pc = "done" => predict_outcome = "UnboundLocalError"

\* C10, reached: predict was called without models and has raised
C10_EmptyModelSetRaised ==
    /\ call = "predict" /\ pc = "done"
    /\ Size(config.used_models) = 0
    /\ predict_outcome = "UnboundLocalError"

-----------------------------------------------------------------------------
(* The main loop: dispatch and collection of the tasks (specification      *)
(* SpecSched)                                                              *)

\* lines 385-391 are behind
Folded ==
    \/ pc \in {"evaluate", "rank", "return"}
    \/ pc = "done" /\ predict_outcome # "Exception"

\* the results collected for the cell (m, o)
ResultsOf(m, o) == {i \in DOMAIN results : results[i].index = <<m, o>>}

\* C11: under the sequential strategy the calls are made one at a time in
\* dispatch order, a train_and_predict call that raises is caught and recorded
\* as a failed result, and the tasks after it are still run and collected:
\* predict is never ended by the exception of a task, and the k-th call made
\* has left the k-th result, a failed one when the call raised.
C11_SequentialRecordsARaisingCall ==
    config.multiprocessing = "sequential" =>
        /\ predict_outcome # "Exception"
        /\ Size(results) = Size(workers)
        /\ \A k \in DOMAIN workers :
              /\ results[k].index = workers[k].index
              /\ workers[k].state = "raised" => ~results[k].ok

\* C12: under the process strategy the collection loop always terminates: a
\* worker that ended without sending a result does not keep predict waiting,
\* so as long as predict has not ended some step of it can be taken.
C12_ProcessCollectionNeverWaitsForever ==
    config.multiprocessing = "process" => (pc = "done" \/ ENABLED NextSched)

\* C13: under the pool strategy predict reaches the fold step only after every
\* dispatched task has completed, and then holds one collected result per
\* dispatched task, whether the task returned or raised.
C13_PoolCollectsOneResultPerTask ==
    (config.multiprocessing = "pool" /\ pc \notin {"input_types", "models", "collect"}) =>
        /\ \A k \in DOMAIN workers : workers[k].state = "done"
        /\ Size(results) = Size(workers)

\* the task of call k gave a result with predictions and errors
SucceededTask(k) ==
    \E i \in ResultsOf(workers[k].index[1], workers[k].index[2]) : results[i].ok

\* the task of call k failed: the call raised, or it handed back a failed result
FailedTask(k) ==
    \/ workers[k].state = "raised"
    \/ workers[k].state \in {"exited", "done"} /\ workers[k].pipe = <<>>
          /\ ResultsOf(workers[k].index[1], workers[k].index[2]) = {}
    \/ \E i \in ResultsOf(workers[k].index[1], workers[k].index[2]) : ~results[i].ok

\* no prediction and no error is held for the cell (m, o)
CellMissing(m, o) ==
    /\ reality_results_matrix[m][o] = MissingPredictions
    /\ \A r \in DOMAIN evaluated_matrix : IsNaN(evaluated_matrix[r][m][o])

\* the cell (m, o) holds what result i reports
CellHolds(m, o, i) ==
    /\ reality_results_matrix[m][o] = i.results
    /\ \A r \in DOMAIN evaluated_matrix :
          evaluated_matrix[r][m][o] \in {i.evaluated_matrix[q] : q \in DOMAIN i.evaluated_matrix}

\* C14: a batch with failed tasks and at least one successful task, under any
\* of the three strategies, ends with predict returned, the cell of every
\* failed task missing, the cell of every successful task holding that task's
\* values, and a best model whose error is not missing.
C14_MixedBatchIsFoldedAndRanked ==
    (/\ pc = "done"
     /\ \E k \in DOMAIN workers : FailedTask(k)
     /\ \E k \in DOMAIN workers : SucceededTask(k)) =>
        /\ predict_outcome = "returned"
        /\ \A k \in DOMAIN workers :
              FailedTask(k) => CellMissing(workers[k].index[1], workers[k].index[2])
        /\ \A k \in DOMAIN workers :
              \A i \in ResultsOf(workers[k].index[1], workers[k].index[2]) :
                 results[i].ok => CellHolds(workers[k].index[1], workers[k].index[2], results[i])
        /\ ~IsNaN(model_results[sorted_results[0]])

\* C15: at every point of a run every cell of evaluated_matrix is nan or an
\* error that a collected result reports for that cell, and every row of
\* reality_results_matrix is missing or the predictions a collected result
\* reports for it; a 0 is held only where a task reported 0.
C15_CellsAreMissingOrWritten ==
    /\ \A r \in DOMAIN evaluated_matrix :
          \A m \in DOMAIN evaluated_matrix[r] :
             \A o \in DOMAIN evaluated_matrix[r][m] :
                \/ IsNaN(evaluated_matrix[r][m][o])
                \/ \E i \in ResultsOf(m, o) :
                      /\ results[i].ok
                      /\ \E q \in DOMAIN results[i].evaluated_matrix :
                            results[i].evaluated_matrix[q] = evaluated_matrix[r][m][o]
    /\ \A m \in DOMAIN reality_results_matrix :
          \A o \in DOMAIN reality_results_matrix[m] :
             \/ reality_results_matrix[m][o] = MissingPredictions
             \/ \E i \in ResultsOf(m, o) :
                   results[i].ok /\ results[i].results = reality_results_matrix[m][o]

\* C15, its case: the fold has written an error of 0 that a task reported,
\* next to a cell that is still missing
C15_ZeroWrittenNextToMissing ==
    /\ pc = "evaluate"
    /\ \E m \in DOMAIN reality_results_matrix :
          \E o \in DOMAIN reality_results_matrix[m] : evaluated_matrix[0][m][o] = Num(0)
    /\ \E m \in DOMAIN reality_results_matrix :
          \E o \in DOMAIN reality_results_matrix[m] : IsNaN(evaluated_matrix[0][m][o])

\* C16: after the fold, predictions and errors of every (model, optimization
\* value) pair are both missing or both held; no result leaves the
\* predictions written with the errors still missing.
C16_CellWrittenWholeOrNotAtAll ==
    Folded =>
        \A m \in DOMAIN reality_results_matrix :
           \A o \in DOMAIN reality_results_matrix[m] :
              (reality_results_matrix[m][o] = MissingPredictions)
                 <=> (\A r \in DOMAIN evaluated_matrix : IsNaN(evaluated_matrix[r][m][o]))

\* C17: no two dispatched tasks have the same (model index, optimization
\* index) pair, and no two collected results write the same cell.
C17_OneTaskPerCell ==
    /\ \A k, l \in DOMAIN workers : k # l => workers[k].index # workers[l].index
    /\ \A i, j \in DOMAIN results : i # j => results[i].index # results[j].index

\* C17, its case: models of two input types and two optimization values, all
\* dispatched
C17_EveryCellDispatched ==
    /\ pc = "collect"
    /\ Cardinality(UsedInputTypes(config)) = 2
    /\ Size(config.optimization_values) = 2
    /\ Size(workers) = Size(config.used_models) * Size(config.optimization_values)

\* the matrices before the first result is written
Fresh ==
    [evaluated_matrix |->
         EmptyEvaluated(config.repeatit, Size(config.used_models), Size(config.optimization_values)),
     reality_results_matrix |->
         EmptyReality(Size(config.used_models), Size(config.optimization_values))]

FoldOf(res) == FoldUpTo(Fresh, res, Size(res))

Now == [evaluated_matrix |-> evaluated_matrix, reality_results_matrix |-> reality_results_matrix]

\* the collected results as a set: their order of arrival is left out
Collected == {results[i] : i \in DOMAIN results}

\* what the set of collected results says about the cell (m, o): the
\* predictions of a result that has both keys, and its errors when there is
\* one for every repetition (or one for all)
PredictionsOfSet(m, o) ==
    IF \E x \in Collected : x.index = <<m, o>> /\ x.ok
    THEN (CHOOSE x \in Collected : x.index = <<m, o>> /\ x.ok).results
    ELSE MissingPredictions

ErrorOfSet(r, m, o) ==
    LET fit == {x \in Collected :
                   /\ x.index = <<m, o>> /\ x.ok
                   /\ Size(x.evaluated_matrix) \in {1, config.repeatit}}
    IN  IF fit = {} THEN NaN
        ELSE LET x == CHOOSE y \in fit : TRUE
             IN  IF Size(x.evaluated_matrix) = 1 THEN x.evaluated_matrix[0]
                 ELSE x.evaluated_matrix[r]

\* C18: the matrices the fold leaves are a function of the set of collected
\* results, whatever the order they arrived in (pool callbacks, pipes), and
\* the averages, the best errors, the order and the best model are made of
\* these matrices alone.
C18_FoldIgnoresArrivalOrder ==
    /\ pc = "evaluate" =>
          \A m \in DOMAIN reality_results_matrix :
             \A o \in DOMAIN reality_results_matrix[m] :
                /\ reality_results_matrix[m][o] = PredictionsOfSet(m, o)
                /\ \A r \in DOMAIN evaluated_matrix :
                      evaluated_matrix[r][m][o] = ErrorOfSet(r, m, o)
    /\ pc = "rank" =>
          /\ repeated_average =
                 RepeatedAverage(evaluated_matrix, Size(used_models_assigned),
                                 Size(config.optimization_values))
          /\ model_results =
                 [m \in DOMAIN repeated_average |-> ModelResult(repeated_average[m])]
          /\ sorted_results \in ArgSort(model_results)
    /\ pc = "return" =>
          best_model_name = BestModelName(sorted_results, used_models_assigned)

\* C18, its case: pool callbacks arrived in another order than the tasks were
\* dispatched in, one of them with a write that raises
C18_ArrivedOutOfOrder ==
    /\ pc = "evaluate"
    /\ config.multiprocessing = "pool"
    /\ Size(results) >= 2
    /\ results[0].index = workers[1].index
    /\ \E i \in DOMAIN results : WriteRaises(Fresh, results[i])

\* C19: the matrices the fold step leaves are those of folding the collected
\* results once into fresh matrices, and folding the same results into them a
\* second time changes nothing.
C19_FoldTwiceIsFoldOnce ==
    pc = "evaluate" =>
        /\ Now = FoldOf(results)
        /\ FoldUpTo(Now, results, Size(results)) = Now

\* C19, its case: the fold has written an error that is not 0
C19_NonZeroErrorFolded ==
    /\ pc = "evaluate"
    /\ Size(results) >= 2
    /\ \E m \in DOMAIN reality_results_matrix :
          \E o \in DOMAIN reality_results_matrix[m] : evaluated_matrix[0][m][o] = Num(MaxErr)

\* C20: for a model of input type 'one_step' or 'one_step_constant' with
\* multi-column data and predicts > 1, train_and_predict is never called, a
\* failed result is recorded for each of its tasks, and the other tasks are
\* still dispatched.
C20_RefusedTaskIsRecordedAsFailed ==
    pc = "fold" =>
        \A j \in DOMAIN used_models_assigned :
           Refused(config, j) =>
              /\ \A k \in DOMAIN workers : workers[k].index[1] # j
              /\ \A o \in DOMAIN config.optimization_values :
                    \E i \in ResultsOf(j, o) : ~results[i].ok

\* the tasks the main loop is to dispatch: the model is let through by lines
\* 342 and 352-353 and the inputs of its input type were made
ToDispatch ==
    {<<m, o>> \in (DOMAIN config.used_models) \X (DOMAIN config.optimization_values) :
        /\ ~Refused(config, m)
        /\ <<o, config.models_input[m]>> \notin inputs_failed}

\* the main loop is through without an exception
Dispatched == pc \notin {"input_types", "models"} /\ predict_outcome # "Exception"

Foreign(i) ==
    \/ i.index[1] \notin DOMAIN config.used_models
    \/ i.index[2] \notin DOMAIN config.optimization_values

\* C22: a run of predict that has collected a result with an index outside
\* the matrices does not get past the fold step; it ends in an error.
C22_ForeignResultIsFatal ==
    (call = "predict" /\ \E i \in DOMAIN results : Foreign(results[i])) =>
        /\ pc \in {"fold", "done"}
        /\ predict_outcome # "returned"

\* the names of the i best-ranked models
BestRanked(n) == {used_models_assigned[sorted_results[i]] : i \in {k \in DOMAIN sorted_results : k < n}}

\* C24: once predict has ranked the models, print_number_of_models = 0 leaves
\* exactly the best-ranked model in the table and its predictions as the
\* 'best' return value, never the text "Best model had an error";
\* print_number_of_models = -1 leaves every model in the table and n > 0 the
\* n best-ranked ones.
C24_ZeroShowsOnlyTheBestModel ==
    Ranked =>
        LET n == config.print_number_of_models
            table == DOMAIN predicted_models_for_table
        IN  /\ n = 0 => /\ table = {best_model_name}
                        /\ best_model_predicts # BestModelHadAnError
            /\ n = -1 => table = BestRanked(Size(sorted_results))
            /\ n > 0 => table = BestRanked(n)

\* the datasets whose predict() call returned
Succeeded == {d \in DOMAIN predict_returns : ~predict_returns[d].raised}

\* C28: when predict failed for some and not for all datasets, compare_models
\* returns the result that the datasets that succeeded give on their own.
C28_FailedDatasetsAreIgnored ==
    (CompareDone /\ Succeeded # {} /\ Succeeded # DOMAIN predict_returns) =>
        /\ compared_result.status = "returned"
        /\ \E f \in Orderings(Succeeded) :
              compared_result =
                  compare_models([k \in DOMAIN f |-> predict_returns[f[k]]], config.used_models,
                                 Size(config.used_models), Size(config.optimization_values))

\* the model whose task wrote row j: tasks take their iterated_model_index
\* and their iterated_model_name from used_models_assigned (line 341)
NameOfRow(j) == UsedModelsAssigned(config.used_models)[j]

\* C29: the name reported for a row is the name of the model whose task
\* wrote the row. In predict the table entry of a name holds the predictions
\* of that model's row; in compare_models row j of the table and the best row
\* carry the name of row j of the matrices predict returned.
C29_RowsKeepTheirModel ==
    /\ Ranked =>
          \A name \in DOMAIN predicted_models_for_table :
             \E j \in DOMAIN used_models_assigned :
                /\ NameOfRow(j) = name
                /\ predicted_models_for_table[name].error_criterion = model_results[j]
                /\ predicted_models_for_table[name].predictions \in
                       {MissingPredictions} \cup
                       {Predictions(j, o) : o \in DOMAIN config.optimization_values}
    /\ (CompareDone /\ compared_result.status = "returned") =>
          \A j \in DOMAIN compared_result.models_table :
             compared_result.models_table[j][1] = NameOfRow(j)

\* C25: with optimization enabled, the config handed to the tasks of the
\* k-th pass carries the k-th optimization value in the swept variable
\* (default_n_steps_in here), and two passes with different optimization
\* values have different configs.
C25_PassCarriesItsOptimizationValue ==
    (call = "predict" /\ config.optimization) =>
        /\ \A k \in DOMAIN passes :
              passes[k].config.default_n_steps_in = config.optimization_values[k]
        /\ \A k1, k2 \in DOMAIN passes :
              config.optimization_values[k1] # config.optimization_values[k2] =>
                  passes[k1].config # passes[k2].config

\* the window of `predicts` consecutive values ending `back` positions before
\* the end of n values
WindowEnding(n, predicts, back) == [c \in Range0(predicts) |-> n - back - predicts + c]

\* C30: the tasks of every pass get as many test windows as evaluated_matrix
\* has repetitions, and row k is the window of `predicts` consecutive values
\* that ends (repeatit - 1 - k) positions before the end of the data.
C30_TestWindowsMatchTheRepetitions ==
    call = "predict" =>
        \A p \in DOMAIN passes :
           LET rows == passes[p].models_test_outputs
           IN  /\ Size(rows) = Size(evaluated_matrix)
               /\ \A k \in DOMAIN rows :
                     rows[k] = WindowEnding(config.data, config.predicts, Size(rows) - 1 - k)

\* the call has returned normally
ReturnedNormally == pc = "done" /\ predict_outcome = "returned"

\* C23: when predict, predict_multiple_columns or compare_models has returned
\* normally, the global config is what it was immediately before the call.
C23_ConfigRestoredOnReturn ==
    (call \in {"predict", "predict_multiple_columns", "compare_models"} /\ ReturnedNormally) =>
        config = config_before

\* the predict() calls of the loop that returned
ReturnedCalls == {k \in DOMAIN calls : calls[k].outcome = "returned"}

\* what predict returns for a pair: the prediction of the column (the first
\* one for None) at the frequency
PredictionOf(pair) == <<IF pair.c = PNone THEN 0 ELSE pair.c, pair.f>>

\* C26: predict_multiple_columns calls predict for the pairs in the order of
\* its loops whatever the earlier calls did, for every pair by the time it
\* returns; the dictionary holds the entry 'Column: c - Freq: f' with what
\* predict returned for exactly the pairs whose call returned.
C26_EveryPairIsCalled ==
    (call = "predict_multiple_columns" /\ pc \in {"loop", "done"}) =>
        /\ Size(calls) = loop_index
        /\ \A k \in DOMAIN calls : calls[k].pair = Pairs(config)[k]
        /\ pc = "done" => Size(calls) = Size(Pairs(config))
        /\ DOMAIN predictions = {Key(calls[k].pair.c, calls[k].pair.f) : k \in ReturnedCalls}
        /\ \A k \in ReturnedCalls :
              predictions[Key(calls[k].pair.c, calls[k].pair.f)] = PredictionOf(calls[k].pair)

\* C26, its case: a call raised, a later call returned, and the function
\* returned a dictionary with an entry
C26_CallAfterAFailedCall ==
    /\ call = "predict_multiple_columns" /\ ReturnedNormally
    /\ \E k1, k2 \in DOMAIN calls :
          /\ k1 < k2
          /\ calls[k1].outcome # "returned"
          /\ calls[k2].outcome = "returned"
    /\ DOMAIN predictions # {}

\* the config without what compare_models sets for each dataset (lines 712-714)
ApartFromTheDataset(cfg) == [cfg EXCEPT !.data = "loaded", !.predicted_column = 0]

\* C27: when predict has raised, the global config is what it was before the
\* call; every predict() call of the loops of predict_multiple_columns and
\* compare_models starts from the config the first one started from.
C27_ConfigRestoredOnRaise ==
    /\ (call = "predict" /\ pc = "done" /\ predict_outcome # "returned") =>
          config = config_before
    /\ call = "predict_multiple_columns" =>
          \A k \in DOMAIN calls : calls[k].config = calls[0].config
    /\ call = "compare_models" =>
          \A k \in DOMAIN calls :
             ApartFromTheDataset(calls[k].config) = ApartFromTheDataset(calls[0].config)

====
